---- MODULE Spec2Model ----
(***************************************************************************)
(* Model of src/app.py, the "Bread Basket" market basket analysis:         *)
(* filtering of the transaction rows, grouping into baskets, pair          *)
(* counting, rankings, per-daypart statistics, the daypart x item pivot    *)
(* and the memoisation of get_item_pairs.                                  *)
(*                                                                         *)
(* Data representation                                                     *)
(*   - a DataFrame is a sequence of rows [TransactionNo, Items, Daypart];  *)
(*   - a list argument (a filter) is the set of its elements, wrapped in   *)
(*     a record that also says whether the argument is None;               *)
(*   - a Counter is the sequence of its <<key, count>> entries in          *)
(*     insertion order (a Python dict keeps insertion order);              *)
(*   - a float is [nan, num, den]: the quotient num/den, or NaN.           *)
(***************************************************************************)
EXTENDS Integers, Sequences, FiniteSets, TLC

VARIABLES df, daypart_filter, items_filter, top_n, cache, runs,
          filtered_df, total_transactions, avg_basket, item_counts,
          pair_counter, top_pairs, avg_basket_by_daypart, heatmap_data, raised

vars == <<df, daypart_filter, items_filter, top_n, cache, runs,
          filtered_df, total_transactions, avg_basket, item_counts,
          pair_counter, top_pairs, avg_basket_by_daypart, heatmap_data, raised>>

(***************************************************************************)
(* Bounds of the model and constants of the program.                       *)
(***************************************************************************)
\* most rows a dataset has
MaxRows == 3
\* most reruns of the script in a session
MaxRuns == 2

\* st.sidebar.slider("Number of top pairs to display", 5, 30, 15)
SliderMin == 5
SliderMax == 30
SliderDefault == 15
\* df['Items'].value_counts().head(15)
HeatmapTop == 15

daypart_order == <<"Morning", "Afternoon", "Evening", "Night">>

\* item labels, listed in the lexicographic order Python's sorted() gives strings
ItemOrder == <<"A", "B", "C">>
ItemLabels == {ItemOrder[i] : i \in 1..Len(ItemOrder)}
\* transaction numbers, integers as in Bakery.csv
TransactionNos == {1, 2}
\* the Daypart values that occur in data: one of the declared ones and one that
\* the declared enumeration does not have (no row has the other three declared)
DataDaypartOrder == <<"Morning", "Brunch">>

Range(s) == {s[i] : i \in 1..Len(s)}
Min(a, b) == IF a < b THEN a ELSE b
Max(a, b) == IF a > b THEN a ELSE b

DataDayparts == Range(DataDaypartOrder)

Rows == [TransactionNo : TransactionNos, Items : ItemLabels, Daypart : DataDayparts]

\* position of a label in ItemOrder: a < b as strings iff ItemRank(a) < ItemRank(b)
ItemRank(item) == CHOOSE i \in 1..Len(ItemOrder) : ItemOrder[i] = item
DaypartRank(d) == CHOOSE i \in 1..Len(DataDaypartOrder) : DataDaypartOrder[i] = d

\* None, and a list given as an argument
NoneArg == [isNone |-> TRUE, list |-> {}]
ListArg(S) == [isNone |-> FALSE, list |-> S]

\* floats
NaN == [nan |-> TRUE, num |-> 0, den |-> 0]
Quot(a, b) == [nan |-> FALSE, num |-> a, den |-> b]

(***************************************************************************)
(* pandas and collections primitives the script uses                       *)
(***************************************************************************)
\* bool(x) of None or of a list
Truthy(arg) == ~arg.isNone /\ arg.list # {}

\* frame[frame['Daypart'].isin(values)] and frame[frame['Items'].isin(values)]
DaypartIsin(rows, values) == SelectSeq(rows, LAMBDA r : r.Daypart \in values)
ItemsIsin(rows, values) == SelectSeq(rows, LAMBDA r : r.Items \in values)

\* frame['TransactionNo'].nunique(), frame['Items'].unique()
nunique(rows) == Cardinality({rows[i].TransactionNo : i \in 1..Len(rows)})
UniqueItems(rows) == {rows[i].Items : i \in 1..Len(rows)}

RECURSIVE SortedInts(_)
SortedInts(S) ==
    IF S = {} THEN <<>>
    ELSE LET m == CHOOSE x \in S : \A y \in S : x <= y
         IN <<m>> \o SortedInts(S \ {m})

\* sorted(items) for a collection of item labels
sorted(S) == SelectSeq(ItemOrder, LAMBDA x : x \in S)

\* the Items column of a frame, as a list
ItemsColumn(rows) == [i \in 1..Len(rows) |-> rows[i].Items]

\* frame.groupby('TransactionNo')['Items'].apply(list): one list of items per
\* transaction number, the groups in ascending key order
groupby_TransactionNo(rows) ==
    LET keys == SortedInts({rows[i].TransactionNo : i \in 1..Len(rows)})
    IN  [k \in 1..Len(keys) |->
            ItemsColumn(SelectSeq(rows, LAMBDA r : r.TransactionNo = keys[k]))]

\* (variant: itertools.combinations_with_replacement(s, 2), i <= j)
RECURSIVE combinations_with_replacement2(_)
combinations_with_replacement2(s) ==
    IF s = <<>> THEN <<>>
    ELSE [j \in 1..Len(s) |-> <<s[1], s[j]>>] \o combinations_with_replacement2(Tail(s))

\* itertools.combinations(s, 2): the pairs <<s[i], s[j]>>, i < j, in
\* lexicographic order of the positions
RECURSIVE combinations2(_)
combinations2(s) ==
    IF Len(s) < 2 THEN <<>>
    ELSE [j \in 1..(Len(s) - 1) |-> <<s[1], s[j + 1]>>] \o combinations2(Tail(s))

\* counter[key] += 1 : a new key is inserted at the end
CounterInc(c, key) ==
    IF \E i \in 1..Len(c) : c[i][1] = key
    THEN [i \in 1..Len(c) |-> IF c[i][1] = key THEN <<key, c[i][2] + 1>> ELSE c[i]]
    ELSE Append(c, <<key, 1>>)

\* counter[key], 0 for a missing key
CounterGet(c, key) ==
    IF \E i \in 1..Len(c) : c[i][1] = key
    THEN (c[CHOOSE i \in 1..Len(c) : c[i][1] = key])[2]
    ELSE 0

\* counter.most_common(n): heapq.nlargest(n, counter.items(), key = count), that
\* is sorted(items, key = count, reverse = True)[:n] for n >= 0, a stable sort
\* (equal counts keep their insertion order); for n < 0 nlargest returns []
InsertByCount(s, e) ==
    LET p == Cardinality({i \in 1..Len(s) : s[i][2] >= e[2]})
    IN  SubSeq(s, 1, p) \o <<e>> \o SubSeq(s, p + 1, Len(s))

RECURSIVE SortedByCountDesc(_, _)
SortedByCountDesc(done, rest) ==
    IF rest = <<>> THEN done
    ELSE SortedByCountDesc(InsertByCount(done, Head(rest)), Tail(rest))

most_common(c, n) ==
    IF n < 0 THEN <<>>
    ELSE LET s == SortedByCountDesc(<<>>, c) IN SubSeq(s, 1, Min(n, Len(s)))

\* frame['Items'].value_counts(): the <<item, number of rows>> entries by
\* descending count. pandas sorts the counts with an unstable sort and promises
\* no order among equal counts: every order of the ties is a possible result.
ItemCount(rows, x) == Cardinality({i \in 1..Len(rows) : rows[i].Items = x})

value_counts(rows) ==
    LET E == {<<x, ItemCount(rows, x)>> : x \in UniqueItems(rows)}
        n == Cardinality(E)
    IN  IF n = 0 THEN {<<>>}
        ELSE {s \in [1..n -> E] :
                \A i, j \in 1..n : i < j => (s[i] # s[j] /\ s[i][2] >= s[j][2])}

\* series.head(n): the first n entries; for n < 0 all but the last -n
head(s, n) ==
    IF n >= 0 THEN SubSeq(s, 1, Min(n, Len(s)))
    ELSE SubSeq(s, 1, Max(Len(s) + n, 0))

\* series.index.tolist()
IndexOf(s) == [i \in 1..Len(s) |-> s[i][1]]

(***************************************************************************)
(* get_item_pairs (the body under @st.cache_data)                          *)
(***************************************************************************)
\* (variant: `if daypart_filter is not None:`, an empty list filters every row out)
FilterByArgsNotNone(d, dp, it) ==
    LET f1 == IF ~dp.isNone THEN DaypartIsin(d, dp.list) ELSE d
    IN  IF ~it.isNone THEN ItemsIsin(f1, it.list) ELSE f1

\* the two filters on the copy of df
FilterByArgs(d, dp, it) ==
    LET f1 == IF Truthy(dp) THEN DaypartIsin(d, dp.list) ELSE d
    IN  IF Truthy(it) THEN ItemsIsin(f1, it.list) ELSE f1

\* unique_items = list(set(items))
unique_items(items) == Range(items)

\* (variant: the set() is forgotten, the sorted list keeps its duplicates)
RECURSIVE SortedWithDuplicatesFrom(_, _)
SortedWithDuplicatesFrom(items, k) ==
    IF k > Len(ItemOrder) THEN <<>>
    ELSE SelectSeq(items, LAMBDA x : x = ItemOrder[k])
            \o SortedWithDuplicatesFrom(items, k + 1)

SortedWithDuplicates(items) == SortedWithDuplicatesFrom(items, 1)

\* sorted(unique_items)
SortedUnique(items) == sorted(unique_items(items))

\* for pair in combinations(sorted(unique_items), 2): pair_counter[pair] += 1
RECURSIVE AddPairs(_, _)
AddPairs(c, pairs) ==
    IF pairs = <<>> THEN c
    ELSE AddPairs(CounterInc(c, Head(pairs)), Tail(pairs))

\* for items in transactions: if len(unique_items) >= 2: ...
RECURSIVE CountPairs(_, _)
CountPairs(c, transactions) ==
    IF transactions = <<>> THEN c
    ELSE LET items == Head(transactions)
             c1 == IF Cardinality(unique_items(items)) >= 2
                   THEN AddPairs(c, combinations2(SortedUnique(items)))
                   ELSE c
         IN  CountPairs(c1, Tail(transactions))

\* (variant: the items filter is not applied to the rows)
get_item_pairs_unfiltered_items(d, dp, it) ==
    CountPairs(<<>>, groupby_TransactionNo(FilterByArgs(d, dp, NoneArg)))

get_item_pairs(d, dp, it) ==
    CountPairs(<<>>, groupby_TransactionNo(FilterByArgs(d, dp, it)))

(***************************************************************************)
(* the script body                                                         *)
(***************************************************************************)
\* filtered_df: `if daypart_filter:` / `if items_filter:` on the widget lists
FilterMain(d, dp, it) ==
    LET f1 == IF Truthy(dp) THEN DaypartIsin(d, dp.list) ELSE d
    IN  IF Truthy(it) THEN ItemsIsin(f1, it.list) ELSE f1

\* len(filtered_df) / max(filtered_df['TransactionNo'].nunique(), 1)
AvgBasket(rows) == Quot(Len(rows), Max(nunique(rows), 1))

\* `items_filter if items_filter else None`
ItemsArg(it) == IF Truthy(it) THEN it ELSE NoneArg

\* (df.groupby('Daypart').size() / df.groupby('Daypart')['TransactionNo'].nunique())
\*     .reindex(daypart_order): a group exists for the Daypart values that have
\* rows; reindex keeps the labels of daypart_order and gives NaN to a label
\* without a group
AvgBasketByDaypart(d) ==
    [k \in 1..Len(daypart_order) |->
        LET g == DaypartIsin(d, {daypart_order[k]})
        IN  <<daypart_order[k], IF g = <<>> THEN NaN ELSE Quot(Len(g), nunique(g))>>]

\* df[df['Items'].isin(top_items_list)].groupby(['Daypart', 'Items']).size()
\*     .unstack(fill_value=0).reindex(daypart_order):
\* unstack gives one column per item that occurs, in sorted order, and 0 for a
\* (Daypart, item) without rows; reindex gives a row of NaN to a label of
\* daypart_order without a group and drops the groups of other labels
NoHeatmap == [index |-> <<>>, columns |-> <<>>, values |-> <<>>]

\* top_items_list = df['Items'].value_counts().head(15).index.tolist()
TopItemsLists(d) == {IndexOf(head(tv, HeatmapTop)) : tv \in value_counts(d)}

HeatmapData(d, top_items) ==
    LET sub == ItemsIsin(d, Range(top_items))
        columns == sorted(UniqueItems(sub))
    IN  [index |-> daypart_order,
         columns |-> columns,
         values |->
            [k \in 1..Len(daypart_order) |->
                LET g == DaypartIsin(sub, {daypart_order[k]})
                IN  [c \in 1..Len(columns) |->
                        IF g = <<>> THEN NaN
                        ELSE Quot(ItemCount(g, columns[c]), 1)]]]

(***************************************************************************)
(* @st.cache_data on get_item_pairs: a memo from the call's arguments to   *)
(* the value the body returned for them                                    *)
(***************************************************************************)
EmptyCache == [k \in {} |-> <<>>]

\* (variant: the key leaves the dataset out)
CacheKeyFiltersOnly(d, dp, it) == <<<<>>, dp, it>>

\* the key of a call: the hash of (df, daypart_filter, items_filter). Two lists
\* with the same elements in another order are two keys in Streamlit and one
\* key here; the body returns the same table for both.
CacheKey(d, dp, it) == <<d, dp, it>>

\* a call of the decorated function: the memo after it (a miss runs the body
\* and stores its result, a hit changes nothing) ...
CacheStore(c, d, dp, it) ==
    IF CacheKey(d, dp, it) \in DOMAIN c THEN c
    ELSE c @@ (CacheKey(d, dp, it) :> get_item_pairs(d, dp, it))

\* ... and the value it returns
CacheReturn(c, d, dp, it) == CacheStore(c, d, dp, it)[CacheKey(d, dp, it)]

\* tab4: for daypart in daypart_order: get_item_pairs(df, [daypart], ...)
RECURSIVE CacheStoreDayparts(_, _, _, _)
CacheStoreDayparts(c, d, dayparts, it) ==
    IF dayparts = <<>> THEN c
    ELSE CacheStoreDayparts(CacheStore(c, d, ListArg({Head(dayparts)}), it),
                            d, Tail(dayparts), it)

(***************************************************************************)
(* What one run of the script computes from its inputs: pc is the table    *)
(* get_item_pairs returned in tab2, any_pairs whether daypart_pairs_data   *)
(* is non-empty in tab4. A set: one element per order value_counts may     *)
(* give to equal counts.                                                   *)
(***************************************************************************)
Outputs(d, dp, it, n, pc, any_pairs) ==
    LET f == FilterMain(d, dp, it)
    IN  { [filtered_df |-> f,
           total_transactions |-> nunique(f),
           avg_basket |-> AvgBasket(f),
           item_counts |-> head(vc, n),
           pair_counter |-> pc,
           top_pairs |-> IF pc # <<>> THEN most_common(pc, n) ELSE <<>>,
           avg_basket_by_daypart |-> AvgBasketByDaypart(d),
           heatmap_data |-> hm] :
          vc \in value_counts(f),
          hm \in (IF any_pairs
                  THEN {HeatmapData(d, top_items_list) : top_items_list \in TopItemsLists(d)}
                  ELSE {NoHeatmap}) }

\* the script ran to its end: no exception reached the caller
Shown(o) ==
    /\ filtered_df' = o.filtered_df
    /\ total_transactions' = o.total_transactions
    /\ avg_basket' = o.avg_basket
    /\ item_counts' = o.item_counts
    /\ pair_counter' = o.pair_counter
    /\ top_pairs' = o.top_pairs
    /\ avg_basket_by_daypart' = o.avg_basket_by_daypart
    /\ heatmap_data' = o.heatmap_data
    /\ raised' = "None"

ShownInit(o) ==
    /\ filtered_df = o.filtered_df
    /\ total_transactions = o.total_transactions
    /\ avg_basket = o.avg_basket
    /\ item_counts = o.item_counts
    /\ pair_counter = o.pair_counter
    /\ top_pairs = o.top_pairs
    /\ avg_basket_by_daypart = o.avg_basket_by_daypart
    /\ heatmap_data = o.heatmap_data
    /\ raised = "None"

\* the memo after a run of the script with the widgets at (dp, it)
CacheAfterRun(c, d, dp, it) ==
    CacheStoreDayparts(CacheStore(c, d, dp, ItemsArg(it)), d, daypart_order, ItemsArg(it))

\* the outputs of a run of the script that starts with memo c
RunOutputs(c, d, dp, it, n) ==
    LET c5 == CacheAfterRun(c, d, dp, it)
    IN  Outputs(d, dp, it, n,
                CacheReturn(c, d, dp, ItemsArg(it)),
                \E k \in 1..Len(daypart_order) :
                    c5[CacheKey(d, ListArg({daypart_order[k]}), ItemsArg(it))] # <<>>)

(***************************************************************************)
(* Datasets: Bakery.csv as load_data returns it. No modelled result        *)
(* depends on the order of the rows of the frame (groupby sorts its keys,  *)
(* isin, size and nunique do not look at the order, the order value_counts *)
(* gives to ties is left open), so one order per multiset of rows is       *)
(* enumerated: ascending (TransactionNo, Items, Daypart).                  *)
(***************************************************************************)
RowKey(r) ==
    ((r.TransactionNo * (Len(ItemOrder) + 1)) + ItemRank(r.Items))
        * (Len(DataDaypartOrder) + 1) + DaypartRank(r.Daypart)

RECURSIVE DatasetsOfLen(_)
DatasetsOfLen(n) ==
    IF n = 0 THEN {<<>>}
    ELSE UNION { {Append(s, r) :
                    r \in {q \in Rows : s = <<>> \/ RowKey(s[Len(s)]) <= RowKey(q)}} :
                 s \in DatasetsOfLen(n - 1) }

Datasets == UNION {DatasetsOfLen(n) : n \in 0..MaxRows}

\* the file with one more row, or with one row less
InsertRow(d, r) ==
    LET p == Cardinality({i \in 1..Len(d) : RowKey(d[i]) <= RowKey(r)})
    IN  SubSeq(d, 1, p) \o <<r>> \o SubSeq(d, p + 1, Len(d))

RemoveRow(d, i) == SubSeq(d, 1, i - 1) \o SubSeq(d, i + 1, Len(d))

Edits(d) ==
    {InsertRow(d, r) : r \in Rows} \cup {RemoveRow(d, i) : i \in 1..Len(d)}

(***************************************************************************)
(* Spec: a session of the app. Streamlit runs the whole script once at     *)
(* start and again after every widget change.                              *)
(***************************************************************************)
SliderValues == {SliderMin, SliderDefault, SliderMax}

\* the script with the widgets at (dp, it, n), on data d, from memo `cache`
Rerun(d, dp, it, n) ==
    /\ runs < MaxRuns
    /\ runs' = runs + 1
    /\ cache' = CacheAfterRun(cache, d, dp, it)
    /\ \E o \in RunOutputs(cache, d, dp, it, n) : Shown(o)

\* Bakery.csv at the start of the session: one morning transaction of two rows
\* (ReloadData reaches the other files)
InitialFiles ==
    {d \in DatasetsOfLen(2) :
        \A i \in 1..2 : d[i].TransactionNo = 1 /\ d[i].Daypart = "Morning"}

Init ==
    /\ df \in InitialFiles
    /\ daypart_filter = ListArg(Range(daypart_order))
    /\ items_filter = ListArg({})
    /\ top_n = SliderDefault
    /\ runs = 0
    /\ cache = CacheAfterRun(EmptyCache, df, daypart_filter, items_filter)
    /\ \E o \in RunOutputs(EmptyCache, df, daypart_filter, items_filter, top_n) :
          ShownInit(o)

\* the "Time of Day" multiselect: one option selected or deselected
ToggleDaypart(s) ==
    /\ daypart_filter' =
          ListArg(IF s \in daypart_filter.list
                  THEN daypart_filter.list \ {s}
                  ELSE daypart_filter.list \cup {s})
    /\ UNCHANGED <<df, items_filter, top_n>>
    /\ Rerun(df, daypart_filter', items_filter, top_n)

\* the "Items" multiselect, options = sorted(df['Items'].unique())
ToggleItem(x) ==
    /\ x \in UniqueItems(df)
    /\ items_filter' =
          ListArg(IF x \in items_filter.list
                  THEN items_filter.list \ {x}
                  ELSE items_filter.list \cup {x})
    /\ UNCHANGED <<df, daypart_filter, top_n>>
    /\ Rerun(df, daypart_filter, items_filter', top_n)

\* the slider
MoveSlider(n) ==
    /\ n # top_n
    /\ top_n' = n
    /\ UNCHANGED <<df, daypart_filter, items_filter>>
    /\ Rerun(df, daypart_filter, items_filter, n)

\* load_data returns a changed file (its own memo entry is gone); the memo of
\* get_item_pairs is kept. The Items multiselect is a new widget, back at its
\* default, when its options changed.
ReloadData(d) ==
    /\ df' = d
    /\ items_filter' =
          IF UniqueItems(d) = UniqueItems(df) THEN items_filter ELSE ListArg({})
    /\ UNCHANGED <<daypart_filter, top_n>>
    /\ Rerun(d, daypart_filter, items_filter', top_n)

Next ==
    \/ \E s \in Range(daypart_order) : ToggleDaypart(s)
    \/ \E x \in ItemLabels : ToggleItem(x)
    \/ \E n \in SliderValues : MoveSlider(n)
    \/ \E d \in Edits(df) : ReloadData(d)

Spec == Init /\ [][Next]_vars

(***************************************************************************)
(* EngineSpec: the functions of the script applied to arguments the        *)
(* widgets cannot produce as well (None for either filter, a list the      *)
(* multiselect does not offer, n outside the slider), without the memo:    *)
(* every call runs the body of get_item_pairs.                             *)
(***************************************************************************)
\* the labels a daypart_filter argument is made of
ArgDayparts == {"Morning", "Evening"}
\* the n of most_common(n) and head(n)
ArgN == {-2, -1, 0, 1, 2, SliderDefault}

EngineRun(d, dp, it, n) ==
    /\ UNCHANGED <<cache, runs>>
    /\ \E o \in Outputs(d, dp, it, n, get_item_pairs(d, dp, it),
                        \E k \in 1..Len(daypart_order) :
                            get_item_pairs(d, ListArg({daypart_order[k]}), it) # <<>>) :
          Shown(o)

EngineInit ==
    /\ df \in Datasets
    /\ daypart_filter = NoneArg
    /\ items_filter = NoneArg
    /\ top_n = SliderDefault
    /\ cache = EmptyCache
    /\ runs = 0
    /\ \E o \in Outputs(df, NoneArg, NoneArg, SliderDefault,
                        get_item_pairs(df, NoneArg, NoneArg),
                        \E k \in 1..Len(daypart_order) :
                            get_item_pairs(df, ListArg({daypart_order[k]}), NoneArg) # <<>>) :
          ShownInit(o)

\* daypart_filter with one label more or less; None counts as no label
CallToggleDaypart(s) ==
    /\ top_n = SliderDefault
    /\ daypart_filter' =
          ListArg(IF s \in daypart_filter.list
                  THEN daypart_filter.list \ {s}
                  ELSE daypart_filter.list \cup {s})
    /\ UNCHANGED <<df, items_filter, top_n>>
    /\ EngineRun(df, daypart_filter', items_filter, top_n)

CallToggleItem(x) ==
    /\ top_n = SliderDefault
    /\ items_filter' =
          ListArg(IF x \in items_filter.list
                  THEN items_filter.list \ {x}
                  ELSE items_filter.list \cup {x})
    /\ UNCHANGED <<df, daypart_filter, top_n>>
    /\ EngineRun(df, daypart_filter, items_filter', top_n)

\* daypart_filter = None, items_filter = None
CallDaypartNone ==
    /\ top_n = SliderDefault
    /\ ~daypart_filter.isNone
    /\ daypart_filter' = NoneArg
    /\ UNCHANGED <<df, items_filter, top_n>>
    /\ EngineRun(df, NoneArg, items_filter, top_n)

CallItemsNone ==
    /\ top_n = SliderDefault
    /\ ~items_filter.isNone
    /\ items_filter' = NoneArg
    /\ UNCHANGED <<df, daypart_filter, top_n>>
    /\ EngineRun(df, daypart_filter, NoneArg, top_n)

\* the rankings with another n. Every table is the table of an unfiltered
\* dataset (the filtered rows of a dataset are a dataset), so n varies on the
\* unfiltered calls only.
CallTopN(n) ==
    /\ daypart_filter = NoneArg
    /\ items_filter = NoneArg
    /\ n # top_n
    /\ top_n' = n
    /\ UNCHANGED <<df, daypart_filter, items_filter>>
    /\ EngineRun(df, daypart_filter, items_filter, n)

EngineNext ==
    \/ \E s \in ArgDayparts : CallToggleDaypart(s)
    \/ \E x \in ItemLabels : CallToggleItem(x)
    \/ CallDaypartNone
    \/ CallItemsNone
    \/ \E n \in ArgN : CallTopN(n)

EngineSpec == EngineInit /\ [][EngineNext]_vars

(***************************************************************************)
(* Properties                                                              *)
(***************************************************************************)
\* what the specification says the filter stage keeps: the rows whose Daypart
\* is in the segment filter and whose Items is in the item filter, a filter
\* that is None or empty restricting nothing
Restricts(arg) == ~arg.isNone /\ arg.list # {}

KeptRows(d, dp, it) ==
    SelectSeq(d, LAMBDA r :
        /\ (Restricts(dp) => r.Daypart \in dp.list)
        /\ (Restricts(it) => r.Items \in it.list))

\* the transactions whose rows in `rows` mention both a and b
Baskets(rows, a, b) ==
    {t \in TransactionNos :
        /\ \E i \in 1..Len(rows) : rows[i].TransactionNo = t /\ rows[i].Items = a
        /\ \E i \in 1..Len(rows) : rows[i].TransactionNo = t /\ rows[i].Items = b}

CanonicalPairs ==
    {p \in ItemLabels \X ItemLabels : ItemRank(p[1]) < ItemRank(p[2])}

\* C1: the count of a pair {A,B} in the table get_item_pairs returns is the
\* number of distinct transactions whose filtered rows mention both A and B
\* (once per transaction, whatever the duplicate rows), and a pair no
\* transaction holds has no entry
C1_PairCountIsBasketCount ==
    LET kept == KeptRows(df, daypart_filter, items_filter)
    IN  /\ \A p \in CanonicalPairs :
              CounterGet(pair_counter, p) = Cardinality(Baskets(kept, p[1], p[2]))
        /\ \A i \in 1..Len(pair_counter) :
              /\ pair_counter[i][1] \in CanonicalPairs
              /\ pair_counter[i][2] >= 1
              /\ \A j \in 1..Len(pair_counter) :
                    pair_counter[i][1] = pair_counter[j][1] => i = j

\* a transaction with rows [A, A, B] after a segment filter, and (A,B) counted once
C1_Witness ==
    LET kept == KeptRows(df, daypart_filter, items_filter)
    IN  \E p \in CanonicalPairs, t \in TransactionNos :
            /\ Restricts(daypart_filter)
            /\ Cardinality({i \in 1..Len(kept) :
                    kept[i].TransactionNo = t /\ kept[i].Items = p[1]}) >= 2
            /\ \E i \in 1..Len(kept) : kept[i].TransactionNo = t /\ kept[i].Items = p[2]
            /\ CounterGet(pair_counter, p) = 1

\* C2: every key of the pair table is a pair of two different labels, the
\* first strictly less than the second, and every count is at least 1 and at
\* most the number of distinct transactions that survive the filters
C2_CanonicalKeysBoundedCounts ==
    \A i \in 1..Len(pair_counter) :
        /\ Len(pair_counter[i][1]) = 2
        /\ ItemRank(pair_counter[i][1][1]) < ItemRank(pair_counter[i][1][2])
        /\ pair_counter[i][2] >= 1
        /\ pair_counter[i][2] <=
              nunique(KeptRows(df, daypart_filter, items_filter))

\* a pair table with an entry whose count is below the two surviving transactions
C2_Witness ==
    /\ pair_counter # <<>>
    /\ nunique(KeptRows(df, daypart_filter, items_filter)) = 2
    /\ Restricts(daypart_filter)

\* C3: both filter stages keep exactly the rows whose Daypart is in the
\* segment filter AND whose Items is in the item filter, None or an empty list
\* restricting nothing; the pair table is the table of those rows; no rows
\* left is an empty table and no error
C3_FiltersAndCombined ==
    LET kept == KeptRows(df, daypart_filter, items_filter)
    IN  /\ filtered_df = kept
        /\ FilterByArgs(df, daypart_filter, items_filter) = kept
        /\ pair_counter = get_item_pairs(kept, NoneArg, NoneArg)
        /\ (kept = <<>> => pair_counter = <<>> /\ raised = "None")

\* an empty list as segment filter next to an item filter that drops some rows
\* and keeps a pair
C3_Witness ==
    /\ daypart_filter = ListArg({})
    /\ Restricts(items_filter)
    /\ filtered_df # df
    /\ pair_counter # <<>>

\* C10: with a non-empty item filter both items of every pair of the table
\* are in the filter, so an item filter of fewer than two items gives an empty
\* table whatever the dataset and the segment filter
C10_PairsInsideItemFilter ==
    Restricts(items_filter) =>
        /\ \A i \in 1..Len(pair_counter) :
              /\ pair_counter[i][1][1] \in items_filter.list
              /\ pair_counter[i][1][2] \in items_filter.list
        /\ (Cardinality(items_filter.list) < 2 => pair_counter = <<>>)

\* an item filter of one item on rows that hold a pair without it
C10_Witness ==
    /\ Cardinality(items_filter.list) = 1
    /\ get_item_pairs(df, daypart_filter, NoneArg) # <<>>
    /\ pair_counter = <<>>

PairLess(p, q) ==
    \/ ItemRank(p[1]) < ItemRank(q[1])
    \/ p[1] = q[1] /\ ItemRank(p[2]) < ItemRank(q[2])

ItemLess(a, b) == ItemRank(a) < ItemRank(b)

RankedWithAscendingTies(s, Less(_, _)) ==
    \A i \in 1..(Len(s) - 1) :
        \/ s[i][2] > s[i + 1][2]
        \/ s[i][2] = s[i + 1][2] /\ Less(s[i][1], s[i + 1][1])

\* the two rankings of C4, one by one
PairRankingTiesAscending == RankedWithAscendingTies(top_pairs, PairLess)
ItemRankingTiesAscending == RankedWithAscendingTies(item_counts, ItemLess)

\* C4: the top-N of the pair table and of the item frequency table are
\* non-increasing in count, equal counts in ascending key order
C4_RankingTiesAscending ==
    /\ PairRankingTiesAscending
    /\ ItemRankingTiesAscending

\* C5: the pivot has one row per entry of daypart_order, in that order, a
\* segment without rows being a row of zeros; its columns are the top items
\* in their frequency-ranked order; a cell is the number of rows of the
\* dataset with that segment and item
C5_HeatmapShape ==
    heatmap_data # NoHeatmap =>
        /\ heatmap_data.index = daypart_order
        /\ heatmap_data.columns \in TopItemsLists(df)
        /\ \A k \in 1..Len(daypart_order) :
              \A c \in 1..Len(heatmap_data.columns) :
                  heatmap_data.values[k][c] =
                      Quot(ItemCount(DaypartIsin(df, {daypart_order[k]}),
                                     heatmap_data.columns[c]), 1)

\* C6: the average basket size is rows / transactions of the filtered rows and
\* 0.0 without a transaction, for the metric and for every segment of
\* daypart_order in the daypart analysis
IsAverageOf(x, rows) ==
    /\ ~x.nan
    /\ x.den > 0
    /\ IF nunique(rows) = 0 THEN x.num = 0
       ELSE x.num * nunique(rows) = Len(rows) * x.den

C6_AverageBasketSize ==
    /\ raised = "None"
    /\ IsAverageOf(avg_basket, filtered_df)
    /\ \A k \in 1..Len(daypart_order) :
          /\ avg_basket_by_daypart[k][1] = daypart_order[k]
          /\ IsAverageOf(avg_basket_by_daypart[k][2],
                         DaypartIsin(df, {daypart_order[k]}))

\* C7: a row whose segment is outside the declared enumeration makes the
\* computation fail with a validation error
C7_UndeclaredSegmentRejected ==
    (\E i \in 1..Len(df) : df[i].Daypart \notin Range(daypart_order))
        => raised = "ValidationError"

====
